---- MODULE Spec2Model ----
(***************************************************************************)
(* A model of game_logic/answers_gen.py: the parenthesis-free expression   *)
(* evaluator eval_no_parens, the exhaustive enumerator                     *)
(* enumerate_targets_for_k and the sink write_buckets.                     *)
(*                                                                         *)
(* The evaluator is modelled at the granularity of its loop iterations;    *)
(* the enumerator calls it once per candidate.  Two specifications:        *)
(*   Spec      a run of enumerate_targets_for_k followed by write_buckets  *)
(*   SpecEval  a direct call of eval_no_parens with arbitrary arguments    *)
(***************************************************************************)
EXTENDS Integers, Sequences, FiniteSets, TLC

VARIABLES
    caller,        \* "enumerate" | "direct": who called eval_no_parens
    pc,            \* position of the control flow
    k, lo, hi, target_lo, target_hi, allowed_ops,   \* enumerate's arguments
    n_pool,        \* list(range(lo, hi + 1))
    buckets,       \* defaultdict(list): only keys that were touched
    permIt,        \* state of the permutations(n_pool, k) iterator
    prodIt,        \* state of the product(allowed_ops, repeat=k-1) iterator
    nums, ops,     \* the loop variables / the arguments of eval_no_parens
    values, operators, i, res,                      \* eval_no_parens locals
    ret,           \* value returned by eval_no_parens (None or a Fraction)
    err,           \* the exception raised, "" when none
    result,        \* dict returned by enumerate_targets_for_k
    files          \* artifacts written by write_buckets: name -> content

cfgVars  == <<k, lo, hi, target_lo, target_hi, allowed_ops>>
enumVars == <<n_pool, buckets, permIt, prodIt, result, files>>
evalVars == <<values, operators, i, res, ret>>
vars == <<caller, pc, cfgVars, enumVars, nums, ops, evalVars, err>>

-----------------------------------------------------------------------------
(* Bounds of the model *)

\* largest pool size hi - lo + 1 of an enumeration run (k ranges to one more)
MaxPool == 3
\* longest operand sequence of a direct call of eval_no_parens
MaxLen == 3

\* lower pool bounds tried: pools with negatives and 0, the default one, one
\* with a non-integer quotient that multiplies to an integer (3/2*4), and one
\* with multi-digit values
LoVals == {-1, 0, 1, 2, 9}
\* target ranges tried: the default, one with negative targets, an empty one
TargetRanges == {<<1, 99>>, <<-3, 3>>, <<2, 1>>}
\* operands of direct calls
EvalNums == {-1, 0, 1, 2, 3, 4, 8}

-----------------------------------------------------------------------------
(* Python values *)

OPS == <<"+", "-", "*", "/">>

None == "None"

Range(s) == {s[j] : j \in 1..Len(s)}

SeqsUpTo(S, n) == UNION {[1..m -> S] : m \in 0..n}

Abs(n) == IF n < 0 THEN -n ELSE n

RECURSIVE Gcd(_, _)
Gcd(a, b) == IF b = 0 THEN a ELSE Gcd(b, a % b)

\* fractions.Fraction(n, d): lowest terms, positive denominator
Fraction(n, d) ==
    LET g == Gcd(Abs(n), Abs(d))
        s == IF d < 0 THEN -1 ELSE 1
    IN  <<(s * n) \div g, (s * d) \div g>>

numerator(f) == f[1]
denominator(f) == f[2]

FracAdd(a, b) == Fraction(a[1] * b[2] + b[1] * a[2], a[2] * b[2])
FracSub(a, b) == Fraction(a[1] * b[2] - b[1] * a[2], a[2] * b[2])
FracMul(a, b) == Fraction(a[1] * b[1], a[2] * b[2])
FracDiv(a, b) == Fraction(a[1] * b[2], a[2] * b[1])
\* Fraction == 0
FracIsZero(b) == b[1] = 0

Digit == <<"0", "1", "2", "3", "4", "5", "6", "7", "8", "9">>

RECURSIVE StrNat(_)
StrNat(n) == IF n < 10 THEN Digit[n + 1]
             ELSE StrNat(n \div 10) \o Digit[(n % 10) + 1]

\* str(n) of an int
Str(n) == IF n < 0 THEN "-" \o StrNat(-n) ELSE StrNat(n)

-----------------------------------------------------------------------------
(* eval_no_parens *)

ArityMismatchOnlyWhenTooMany(ns, os) == Len(os) > Len(ns) - 1

\* the arity check of line 21
ArityMismatch(ns, os) == Len(os) /= Len(ns) - 1

IsMulDivWithoutDivision(op) == op = "*"

\* op in ("*", "/")
IsMulDiv(op) == op \in {"*", "/"}

DivByZeroOnLeftOperand(op, a, b) == op = "/" /\ FracIsZero(a)

DivByZeroForAnyOperator(op, a, b) == FracIsZero(b)

\* the division-by-zero test of lines 34-35
DivByZero(op, a, b) == op = "/" /\ FracIsZero(b)

\* r of lines 34-39
Combine(op, a, b) == IF op = "/" THEN FracDiv(a, b) ELSE FracMul(a, b)

\* values[i : i + 2] = [r], with the 0-based i of the code
Splice(vs, ix, r) ==
    SubSeq(vs, 1, ix) \o <<r>> \o SubSeq(vs, ix + 3, Len(vs))

\* operators.pop(i), with the 0-based i of the code
Pop(os, ix) == SubSeq(os, 1, ix) \o SubSeq(os, ix + 2, Len(os))

\* one step of pass 2: res += b / res -= b
Accumulate(op, r, b) == IF op = "+" THEN FracAdd(r, b) ELSE FracSub(r, b)

\* lines 19-28: the checks, the copies, i = 0
EvalEnter ==
    /\ pc = "eval_enter"
    /\ IF Len(nums) = 0
       THEN /\ pc' = "returned"
            /\ ret' = None
            /\ UNCHANGED <<values, operators, i, res, err>>
       ELSE IF ArityMismatch(nums, ops)
       THEN /\ pc' = "raised"
            /\ err' = "ValueError: len(ops) must be len(nums)-1"
            /\ UNCHANGED <<values, operators, i, res, ret>>
       ELSE /\ pc' = "pass1"
            /\ values' = [j \in 1..Len(nums) |-> Fraction(nums[j], 1)]
            /\ operators' = ops
            /\ i' = 0
            /\ UNCHANGED <<res, ret, err>>
    /\ UNCHANGED <<caller, cfgVars, enumVars, nums, ops>>

\* lines 29-45: one iteration of the while loop of pass 1
Pass1Step ==
    /\ pc = "pass1"
    /\ i < Len(operators)
    /\ LET op == operators[i + 1] IN
       IF IsMulDiv(op)
       THEN LET a == values[i + 1]
                b == values[i + 2]
            IN  IF DivByZero(op, a, b)
                THEN /\ pc' = "returned"
                     /\ ret' = None
                     /\ UNCHANGED <<values, operators, i>>
                ELSE /\ values' = Splice(values, i, Combine(op, a, b))
                     /\ operators' = Pop(operators, i)
                     /\ UNCHANGED <<pc, i, ret>>
       ELSE /\ i' = i + 1
            /\ UNCHANGED <<pc, values, operators, ret>>
    /\ UNCHANGED <<caller, cfgVars, enumVars, nums, ops, res, err>>

\* lines 29 and 48: the while loop ends, res = values[0]
Pass2Enter ==
    /\ pc = "pass1"
    /\ ~(i < Len(operators))
    /\ res' = values[1]
    /\ i' = 0
    /\ pc' = "pass2"
    /\ UNCHANGED <<caller, cfgVars, enumVars, nums, ops, values, operators, ret, err>>

\* lines 49-54: one iteration of the for loop of pass 2
Pass2Step ==
    /\ pc = "pass2"
    /\ i < Len(operators)
    /\ res' = Accumulate(operators[i + 1], res, values[i + 2])
    /\ i' = i + 1
    /\ UNCHANGED <<caller, pc, cfgVars, enumVars, nums, ops, values, operators, ret, err>>

\* lines 49 and 55: the for loop ends, return res
EvalReturn ==
    /\ pc = "pass2"
    /\ ~(i < Len(operators))
    /\ ret' = res
    /\ pc' = "returned"
    /\ UNCHANGED <<caller, cfgVars, enumVars, nums, ops, values, operators, i, res, err>>

EvalNext == EvalEnter \/ Pass1Step \/ Pass2Enter \/ Pass2Step \/ EvalReturn

\* a direct call eval_no_parens(nums, ops)
InitEval ==
    /\ caller = "direct"
    /\ pc = "eval_enter"
    /\ nums \in SeqsUpTo(EvalNums, MaxLen)
    /\ ops \in SeqsUpTo(Range(OPS), MaxLen - 1)
    /\ k = 0 /\ lo = 0 /\ hi = 0 /\ target_lo = 0 /\ target_hi = 0
    /\ allowed_ops = OPS
    /\ n_pool = <<>> /\ buckets = <<>> /\ permIt = <<>> /\ prodIt = <<>>
    /\ result = <<>> /\ files = <<>>
    /\ values = <<>> /\ operators = <<>> /\ i = 0 /\ res = None /\ ret = None
    /\ err = ""

SpecEval == InitEval /\ [][EvalNext]_vars

-----------------------------------------------------------------------------
(* itertools *)

Distinct(idx) == \A a, b \in 1..Len(idx) : a /= b => idx[a] /= idx[b]

\* the successor of an index tuple over 1..n, the rightmost index advancing
\* fastest; <<>> when there is none
RECURSIVE Inc(_, _)
Inc(idx, n) ==
    IF idx = <<>> THEN <<>>
    ELSE LET m == Len(idx) IN
         IF idx[m] < n THEN [idx EXCEPT ![m] = idx[m] + 1]
         ELSE LET front == Inc(SubSeq(idx, 1, m - 1), n) IN
              IF front = <<>> THEN <<>> ELSE Append(front, 1)

RECURSIVE NextDistinct(_, _)
NextDistinct(idx, n) ==
    LET nx == Inc(idx, n) IN
    IF nx = <<>> \/ Distinct(nx) THEN nx ELSE NextDistinct(nx, n)

\* next() of product(pool, repeat=r) over a pool of n elements, as indices
\* into the pool: `it` is the tuple yielded last (<<>>: none yet); the result
\* is <<>> when the iterator is exhausted
ProdNext(it, n, r) ==
    IF n = 0 THEN <<>>
    ELSE IF it = <<>> THEN [j \in 1..r |-> 1]
    ELSE Inc(it, n)

\* next() of permutations(pool, r): the tuples of product(range(n), repeat=r)
\* without repeated indices, in the same order
PermNext(it, n, r) ==
    LET nx == ProdNext(it, n, r) IN
    IF nx = <<>> \/ Distinct(nx) THEN nx ELSE NextDistinct(nx, n)

-----------------------------------------------------------------------------
(* enumerate_targets_for_k and write_buckets *)

\* list(range(lo, hi + 1))
PoolList(l, h) == [j \in 1..(h - l + 1) |-> l + j - 1]

KTooSmall(kk) == kk < 2

KTooLargeOffByOne(kk, pool) == kk >= Len(pool)

\* the check of line 79
KTooLarge(kk, pool) == kk > Len(pool)

NotIntegerIgnored(v) == FALSE

\* v.denominator != 1
NotInteger(v) == denominator(v) /= 1

\* int(v) of a Fraction: truncation towards 0
IntOf(v) == IF numerator(v) < 0 THEN -((-numerator(v)) \div denominator(v))
          ELSE numerator(v) \div denominator(v)

InTargetRangeWithoutLowerBound(tv, tlo, thi) == tv <= thi

\* target_lo <= tv <= target_hi
InTargetRange(tv, tlo, thi) == tlo <= tv /\ tv <= thi

StrWithoutSign(n) == StrNat(Abs(n))

\* str() of an operand
StrOperand(n) == Str(n)

\* lines 94-98: "".join(parts)
RECURSIVE RenderFrom(_, _, _)
RenderFrom(ns, os, j) ==
    IF j > Len(os) \/ j + 1 > Len(ns) THEN ""
    ELSE os[j] \o StrOperand(ns[j + 1]) \o RenderFrom(ns, os, j + 1)

Render(ns, os) == StrOperand(ns[1]) \o RenderFrom(ns, os, 1)

BucketAppendFront(b, tv, s) ==
    IF tv \in DOMAIN b THEN [b EXCEPT ![tv] = <<s>> \o @] ELSE b @@ (tv :> <<s>>)

\* buckets[tv].append(s) on a defaultdict(list)
BucketAppend(b, tv, s) ==
    IF tv \in DOMAIN b THEN [b EXCEPT ![tv] = Append(@, s)] ELSE b @@ (tv :> <<s>>)

\* buckets.get(t, [])
DictGet(b, t) == IF t \in DOMAIN b THEN b[t] ELSE <<>>

RECURSIVE JoinLines(_)
\* "\n".join(exprs)
JoinLines(exprs) ==
    IF exprs = <<>> THEN ""
    ELSE IF Len(exprs) = 1 THEN exprs[1]
    ELSE exprs[1] \o "\n" \o JoinLines(Tail(exprs))

\* what lines 114-115 write into the file of one target
FileContent(exprs) == IF exprs /= <<>> THEN JoinLines(exprs) \o "\n" ELSE ""

\* f"{t}.txt"
FileName(t) == Str(t) \o ".txt"

WrittenTargetsOnlyBucketed(b, tlo, thi) == {t \in tlo..thi : t \in DOMAIN b}

\* the targets write_buckets loops over: range(target_lo, target_hi + 1)
WrittenTargets(b, tlo, thi) == tlo..thi

\* lines 76-82: the argument checks, the pool, the empty buckets
EnumEnter ==
    /\ pc = "enum_enter"
    /\ IF KTooSmall(k)
       THEN /\ pc' = "raised"
            /\ err' = "ValueError: k must be >= 2"
            /\ UNCHANGED <<n_pool, buckets>>
       ELSE /\ n_pool' = PoolList(lo, hi)
            /\ IF KTooLarge(k, n_pool')
               THEN /\ pc' = "raised"
                    /\ err' = "ValueError: k cannot exceed the size of the number pool"
                    /\ UNCHANGED buckets
               ELSE /\ pc' = "outer"
                    /\ buckets' = <<>>
                    /\ UNCHANGED err
    /\ UNCHANGED <<caller, cfgVars, permIt, prodIt, result, files, nums, ops, evalVars>>

\* line 84: the next permutation, or line 100 when there is none
OuterNext ==
    /\ pc = "outer"
    /\ LET nx == PermNext(permIt, Len(n_pool), k) IN
       IF nx = <<>>
       THEN /\ result' = buckets
            /\ pc' = "enum_done"
            /\ UNCHANGED <<permIt, prodIt, nums>>
       ELSE /\ permIt' = nx
            /\ nums' = [j \in 1..k |-> n_pool[nx[j]]]
            /\ prodIt' = <<>>
            /\ pc' = "inner"
            /\ UNCHANGED result
    /\ UNCHANGED <<caller, cfgVars, n_pool, buckets, files, ops, evalVars, err>>

\* lines 85-86: the next operator tuple and the call of eval_no_parens, or
\* back to the outer loop when there is none
InnerNext ==
    /\ pc = "inner"
    /\ LET nx == ProdNext(prodIt, Len(allowed_ops), k - 1) IN
       IF nx = <<>>
       THEN /\ pc' = "outer"
            /\ UNCHANGED <<prodIt, ops>>
       ELSE /\ prodIt' = nx
            /\ ops' = [j \in 1..(k - 1) |-> allowed_ops[nx[j]]]
            /\ pc' = "eval_enter"
    /\ UNCHANGED <<caller, cfgVars, n_pool, buckets, permIt, result, files, nums,
                   evalVars, err>>

\* lines 87-98: the filters and the append to the bucket
Filter ==
    /\ pc = "returned"
    /\ caller = "enumerate"
    /\ IF ret = None \/ NotInteger(ret)
       THEN UNCHANGED buckets
       ELSE LET tv == IntOf(ret) IN
            IF ~InTargetRange(tv, target_lo, target_hi)
            THEN UNCHANGED buckets
            ELSE buckets' = BucketAppend(buckets, tv, Render(nums, ops))
    /\ pc' = "inner"
    /\ UNCHANGED <<caller, cfgVars, n_pool, permIt, prodIt, result, files, nums, ops,
                   evalVars, err>>

\* lines 133 and 110-115: write_buckets(buckets, out_dir, target_lo, target_hi)
\* on the returned mapping; a later file of the same name replaces an earlier
WriteBuckets ==
    /\ pc = "enum_done"
    /\ LET ts == WrittenTargets(result, target_lo, target_hi)
           last(name) == CHOOSE t \in ts :
                             /\ FileName(t) = name
                             /\ \A u \in ts : FileName(u) = name => u <= t
       IN  files' = [name \in {FileName(t) : t \in ts} |->
                        FileContent(DictGet(result, last(name)))]
    /\ pc' = "written"
    /\ UNCHANGED <<caller, cfgVars, n_pool, buckets, permIt, prodIt, result, nums, ops,
                   evalVars, err>>

OpChoices == {OPS, <<"/", "-">>}

\* a call enumerate_targets_for_k(k=, lo=, hi=, target_lo=, target_hi=, allowed_ops=)
Init ==
    /\ caller = "enumerate"
    /\ pc = "enum_enter"
    /\ k \in 0..(MaxPool + 1)
    /\ lo \in LoVals
    /\ hi \in (lo - 1)..(lo + MaxPool - 1)
    /\ \E r \in TargetRanges : target_lo = r[1] /\ target_hi = r[2]
    /\ allowed_ops \in OpChoices
    /\ n_pool = <<>> /\ buckets = <<>> /\ permIt = <<>> /\ prodIt = <<>>
    /\ nums = <<>> /\ ops = <<>>
    /\ result = <<>> /\ files = <<>>
    /\ values = <<>> /\ operators = <<>> /\ i = 0 /\ res = None /\ ret = None
    /\ err = ""

Next ==
    \/ EnumEnter
    \/ OuterNext
    \/ InnerNext
    \/ EvalEnter
    \/ Pass1Step
    \/ Pass2Enter
    \/ Pass2Step
    \/ EvalReturn
    \/ Filter
    \/ WriteBuckets

Spec == Init /\ [][Next]_vars

-----------------------------------------------------------------------------
(* The value of a parenthesis-free expression, by its grammar              *)
(*   expr ::= expr (+|-) term | term      term ::= term ( * | / ) n | n    *)
(* as an unreduced pair <<p, q>> standing for p / q.                       *)

ValidCall(ns, os) == Len(ns) > 0 /\ Len(os) = Len(ns) - 1

RECURSIVE RefTerm(_, _)
RefTerm(ns, os) ==
    IF Len(ns) = 1 THEN <<ns[1], 1>>
    ELSE LET t == RefTerm(SubSeq(ns, 1, Len(ns) - 1), SubSeq(os, 1, Len(os) - 1))
             n == ns[Len(ns)]
         IN  IF os[Len(os)] = "*" THEN <<t[1] * n, t[2]>> ELSE <<t[1], t[2] * n>>

RECURSIVE RefExpr(_, _)
RefExpr(ns, os) ==
    LET adds == {j \in 1..Len(os) : os[j] \in {"+", "-"}} IN
    IF adds = {} THEN RefTerm(ns, os)
    ELSE LET j == CHOOSE x \in adds : \A y \in adds : y <= x
             l == RefExpr(SubSeq(ns, 1, j), SubSeq(os, 1, j - 1))
             r == RefTerm(SubSeq(ns, j + 1, Len(ns)), SubSeq(os, j + 1, Len(os)))
         IN  IF os[j] = "+" THEN <<l[1] * r[2] + r[1] * l[2], l[2] * r[2]>>
             ELSE <<l[1] * r[2] - r[1] * l[2], l[2] * r[2]>>

\* some division of the expression has the divisor 0
RefDividesByZero(ns, os) == \E j \in 1..Len(os) : os[j] = "/" /\ ns[j + 1] = 0

SameRational(f, r) == f[1] * r[2] = r[1] * f[2]

InLowestTerms(f) ==
    /\ f[2] > 0
    /\ \A d \in 2..f[2] : ~(f[1] % d = 0 /\ f[2] % d = 0)

-----------------------------------------------------------------------------
(* Claims about eval_no_parens, checked under SpecEval *)

\* C1: for a non-empty operand sequence and len(ops) = len(nums) - 1 with no
\* division by zero, eval_no_parens returns (never raises) the exact rational
\* value of the expression under standard precedence, left to right within a
\* precedence level, in lowest terms; with the five examples of the claim.
C1_EvalIsExact ==
    (/\ caller = "direct"
     /\ pc \in {"returned", "raised"}
     /\ ValidCall(nums, ops)
     /\ ~RefDividesByZero(nums, ops))
    => /\ pc = "returned"
       /\ ret /= None
       /\ SameRational(ret, RefExpr(nums, ops))
       /\ InLowestTerms(ret)
       /\ (nums = <<2, 3, 4>> /\ ops = <<"+", "*">>) => ret = <<14, 1>>
       /\ (nums = <<2, 3, 4>> /\ ops = <<"*", "+">>) => ret = <<10, 1>>
       /\ (nums = <<8, 4, 2>> /\ ops = <<"/", "/">>) => ret = <<1, 1>>
       /\ (nums = <<8, 4, 2>> /\ ops = <<"-", "-">>) => ret = <<2, 1>>
       /\ (nums = <<1, 3, 3>> /\ ops = <<"/", "*">>) => ret = <<1, 1>>

C1_Witness ==
    /\ caller = "direct" /\ pc = "returned"
    /\ nums = <<1, 3, 3>> /\ ops = <<"/", "*">> /\ ret = <<1, 1>>

C10_RightOperandIsOriginal ==
    /\ (pc = "pass1" /\ i < Len(operators) /\ IsMulDiv(operators[i + 1]))
       => LET c == Len(nums) - Len(values) IN
          /\ Len(values) = Len(operators) + 1
          /\ \A j \in (i + 2)..Len(values) : values[j] = <<nums[j + c], 1>>
    /\ (pc = "returned" /\ ValidCall(nums, ops))
       => /\ ret = None <=> \E j \in 1..Len(ops) : ops[j] = "/" /\ nums[j + 1] = 0
          /\ 0 \notin Range(nums) => ret /= None

\* a division whose left operand is a non-integer intermediate result
C10_Witness ==
    /\ caller = "direct" /\ pc = "pass1"
    /\ i < Len(operators) /\ operators[i + 1] = "/"
    /\ Len(values) < Len(nums)
    /\ denominator(values[i + 1]) /= 1
    /\ values[i + 2] = <<nums[Len(nums)], 1>>

-----------------------------------------------------------------------------
(* The candidates of a run and their canonical strings, by definition *)

\* every ordered choice of k distinct pool values with k-1 allowed operators
Candidates ==
    {c \in [1..k -> lo..hi] \X [1..(k - 1) -> Range(allowed_ops)] : Distinct(c[1])}

Decimal(n) ==
    LET d(m) == CHOOSE x \in {"0", "1", "2", "3", "4", "5", "6", "7", "8", "9"} :
                    x = Digit[m + 1]
        a == Abs(n)
        digits == IF a < 10 THEN d(a)
                  ELSE IF a < 100 THEN d(a \div 10) \o d(a % 10)
                  ELSE d(a \div 100) \o d((a \div 10) % 10) \o d(a % 10)
    IN  IF n < 0 THEN "-" \o digits ELSE digits

\* n0 op0 n1 op1 ... without spaces, built from the right
RECURSIVE CanonicalPrefix(_, _, _)
CanonicalPrefix(ns, os, m) ==
    IF m = 1 THEN Decimal(ns[1])
    ELSE CanonicalPrefix(ns, os, m - 1) \o os[m - 1] \o Decimal(ns[m])

CanonicalString(c) == CanonicalPrefix(c[1], c[2], Len(c[1]))

\* the candidate evaluates, without division by zero, to the integer t
EvaluatesTo(c, t) ==
    /\ ~RefDividesByZero(c[1], c[2])
    /\ LET r == RefExpr(c[1], c[2]) IN r[1] = t * r[2]

\* c comes before d: by the operands over the ascending pool first, then by
\* the operators over the order of allowed_ops
OpPos(o) == CHOOSE j \in 1..Len(allowed_ops) : allowed_ops[j] = o

SortKey(c) == c[1] \o [j \in 1..Len(c[2]) |-> OpPos(c[2][j])]

ComesBefore(c, d) ==
    LET x == SortKey(c)
        y == SortKey(d)
    IN  \E j \in 1..Len(x) : x[j] < y[j] /\ \A h \in 1..(j - 1) : x[h] = y[h]

Finished == pc \in {"enum_done", "written"}

-----------------------------------------------------------------------------
(* Claims about enumerate_targets_for_k and write_buckets, checked under Spec *)

\* C2: when enumerate_targets_for_k returns, the bucket of every target t of
\* the range holds exactly the canonical strings of the candidates that
\* evaluate, without division by zero, to the integer t.
C2_BucketsAreExact ==
    Finished =>
        \A t \in target_lo..target_hi :
            Range(DictGet(result, t)) =
                {CanonicalString(c) : c \in {d \in Candidates : EvaluatesTo(d, t)}}

\* 3/2*4 = 6: a non-integer intermediate value, an integer result
C2_Witness ==
    /\ pc = "enum_done"
    /\ 6 \in DOMAIN result
    /\ "3/2*4" \in Range(result[6])

\* C3 as stated: the mapping enumerate_targets_for_k returns has an entry for
\* every integer of [target_lo, target_hi].
C3_ResultHasEveryTarget ==
    Finished => \A t \in target_lo..target_hi : t \in DOMAIN result

\* C3 as amended: the returned mapping has an entry only for the targets of the
\* range that got at least one expression; it is write_buckets that
\* materializes every integer of [target_lo, target_hi], writing an empty file
\* for a target without an entry.
C3_SinkMaterializesRange ==
    /\ Finished =>
          \A t \in DOMAIN result :
              result[t] /= <<>> /\ t \in target_lo..target_hi
    /\ pc = "written" =>
          /\ DOMAIN files = {FileName(t) : t \in target_lo..target_hi}
          /\ \A t \in target_lo..target_hi :
                IF t \in DOMAIN result THEN files[FileName(t)] /= ""
                ELSE files[FileName(t)] = ""

C3_Witness ==
    /\ pc = "written"
    /\ \E t, u \in target_lo..target_hi :
          /\ t \notin DOMAIN result /\ files[FileName(t)] = ""
          /\ u \in DOMAIN result /\ files[FileName(u)] /= ""

\* C5: in a run of the enumerator, eval_no_parens returns None exactly in a
\* pass 1 step that applies "/" to a right operand whose current value is 0,
\* and that step ends the evaluation at once; the enumerator then leaves every
\* bucket as it is, raises nothing and goes on with the next candidate.
C5_DivisionByZeroDiscards ==
    [][ /\ (pc' = "returned" /\ ret' = None)
           <=> (/\ pc = "pass1"
                /\ i < Len(operators)
                /\ operators[i + 1] = "/"
                /\ numerator(values[i + 2]) = 0)
        /\ (pc = "returned" /\ ret = None)
           => (/\ buckets' = buckets
               /\ err' = ""
               /\ pc' = "inner"
               /\ permIt' = permIt /\ prodIt' = prodIt)
        /\ (pc = "inner" /\ pc' = "eval_enter")
           => (ops' /= ops \/ prodIt = <<>>)
      ]_vars

\* a candidate was discarded for a division by zero, the next one is called
C5_Witness ==
    /\ caller = "enumerate" /\ pc = "eval_enter"
    /\ ret = None
    /\ i < Len(operators) /\ operators[i + 1] = "/"
    /\ numerator(values[i + 2]) = 0
    /\ buckets /= <<>>

\* C6: enumerate_targets_for_k raises ValueError iff k < 2 or k exceeds the
\* pool size (an empty pool included), and then nothing was evaluated or
\* bucketed.
C6_InvalidKRaisesFirst ==
    pc /= "enum_enter" =>
        LET size == IF hi >= lo THEN hi - lo + 1 ELSE 0
            bad == k < 2 \/ k > size
        IN  /\ bad => /\ pc = "raised"
                      /\ err \in {"ValueError: k must be >= 2",
                                  "ValueError: k cannot exceed the size of the number pool"}
                      /\ buckets = <<>> /\ result = <<>>
                      /\ permIt = <<>> /\ prodIt = <<>>
                      /\ nums = <<>> /\ ops = <<>>
                      /\ values = <<>> /\ ret = None
            /\ ~bad => (pc /= "raised" /\ err = "")

\* k = 2 with an empty pool
C6_Witness == pc = "raised" /\ k = 2 /\ hi < lo

\* C7 as stated: no bucket ever holds a candidate of negative value.
C7_NoNegativeTarget == \A t \in DOMAIN buckets : t >= 0

\* C7 as amended: a candidate is appended only when its value is an exact
\* integer within [target_lo, target_hi], to the bucket of that value; negative
\* values are kept out only by target_lo >= 0 and are appended when the range
\* contains them.
C7_OnlyIntegersInRange ==
    [][ buckets' /= buckets
        => /\ pc = "returned"
           /\ ret /= None
           /\ denominator(ret) = 1
           /\ target_lo <= numerator(ret) /\ numerator(ret) <= target_hi
           /\ DOMAIN buckets' = DOMAIN buckets \cup {numerator(ret)}
           /\ Len(buckets'[numerator(ret)]) = Len(DictGet(buckets, numerator(ret))) + 1
           /\ target_lo >= 0 => \A t \in DOMAIN buckets' : t >= 0
      ]_vars

\* a negative value was appended
C7_Witness == \E t \in DOMAIN buckets : t < 0 /\ buckets[t] /= <<>>

\* C8: in every returned bucket the expressions stand in enumeration order:
\* by the operand permutation over the ascending pool first, then by the
\* operator tuple over the configured order of allowed_ops.
C8_BucketsInEnumerationOrder ==
    Finished =>
        LET table == {<<CanonicalString(c), c>> : c \in Candidates}
            back(s) == (CHOOSE p \in table : p[1] = s)[2]
        IN  \A t \in DOMAIN result :
                \A a \in 1..(Len(result[t]) - 1) :
                    /\ \E p \in table : p[1] = result[t][a]
                    /\ \E p \in table : p[1] = result[t][a + 1]
                    /\ ComesBefore(back(result[t][a]), back(result[t][a + 1]))

\* "/" is configured before "-": 4/2 stands before 4-2
C8_Witness ==
    /\ pc = "enum_done"
    /\ allowed_ops = <<"/", "-">>
    /\ 2 \in DOMAIN result
    /\ \E a, b \in 1..Len(result[2]) :
          a < b /\ result[2][a] = "4/2" /\ result[2][b] = "4-2"

\* C9: with duplicate-free allowed_ops, the operands of every candidate are
\* pairwise distinct, every returned string is the canonical string of a
\* candidate with pairwise distinct operands, and no string occurs twice in
\* the buckets of the run.
C9_StringsAreDistinct ==
    (\A a, b \in 1..Len(allowed_ops) : a /= b => allowed_ops[a] /= allowed_ops[b])
    => /\ Distinct(nums)
       /\ Finished =>
             LET used == UNION {{<<t, j>> : j \in 1..Len(result[t])} : t \in DOMAIN result}
                 strings == {result[x[1]][x[2]] : x \in used}
             IN  /\ strings \subseteq {CanonicalString(c) : c \in Candidates}
                 /\ Cardinality(strings) = Cardinality(used)

\* two strings in one bucket, of a pool with a negative value
C9_Witness ==
    /\ pc = "enum_done" /\ lo = -1
    /\ 0 \in DOMAIN result
    /\ "1+-1" \in Range(result[0]) /\ "-1+1" \in Range(result[0])

====
